---- MODULE Spec2Model ----
(***************************************************************************)
(* Model of lib/dataFetcher.js: fetchDataAndSend polls the positioning API, *)
(* normalises every beacon entry (extractBeaconData, formatUptime) and      *)
(* relays the batch to the MQTT broker (sendToMqtt), the persistence API    *)
(* (sendToMongoDB) and the socket.io server (io.on / io.emit).              *)
(*                                                                         *)
(* One action is one turn of the Node.js event loop: the callback that the  *)
(* event triggers together with the promise continuations (microtasks) it   *)
(* releases, which run before the next event is taken.                      *)
(*                                                                         *)
(* Strings that the code indexes or re-cases (beacon keys) are sequences of *)
(* one-character strings; strings that are only concatenated are strings.   *)
(***************************************************************************)
EXTENDS Integers, Sequences, FiniteSets, TLC

\* ------------------------------------------------------------------ bounds
MaxInv == 1
MaxBeacons == 2
MaxSockets == 1
MaxUptime == 100000

Invs == 1..MaxInv
Sockets == 1..MaxSockets

VARIABLES
    inv,        \* per call of fetchDataAndSend: its locals, its MQTT client, its requests
    listeners,  \* the 'connection' listeners registered on io, in registration order
    connected,  \* the sockets currently connected to io
    received    \* per socket: the "beaconData" events it was sent, in order

vars == <<inv, listeners, connected, received>>

\* ------------------------------------------------------- upstream payloads
Loc1 == [latitude |-> 47, longitude |-> 8, sapLocation |-> "A1",
         tempCondition_Low |-> 2, tempCondition_High |-> 8]
Loc2 == [latitude |-> 48, longitude |-> 9, sapLocation |-> "B7",
         tempCondition_Low |-> 15, tempCondition_High |-> 25]

\* { <beaconId>: { nearestGatewayData, location, dynamb? } }
BeaconPlain == (<<"a", "c">> :> [nearestGatewayData |-> [device |-> "gw1"], location |-> Loc1])
BeaconDynamb(s) == (<<"B", "2", "f">> :> [nearestGatewayData |-> [device |-> "gw2"], location |-> Loc2,
                                          dynamb |-> [temperature |-> 21, uptime |-> s]])
\* an entry without nearestGatewayData: reading .device of undefined throws
BeaconBroken == (<<"e">> :> [location |-> Loc1])

Beacons == {BeaconPlain, BeaconDynamb(90061), BeaconBroken}

RECURSIVE SeqsUpTo(_, _)
SeqsUpTo(S, n) ==
    IF n = 0 THEN {<<>>}
    ELSE LET shorter == SeqsUpTo(S, n - 1)
         IN shorter \cup {Append(q, x) : q \in {p \in shorter : Len(p) = n - 1}, x \in S}

\* What axios.get can produce: a rejection, or a response whose data is
\*   null | {} | {data: {}} | {data: {beacons: <not an array>}} | {data: {beacons: [...]}}
OkResponse(bs) == [kind |-> "ok", beacons |-> bs]
Responses ==
    {[kind |-> k, beacons |-> <<>>] :
        k \in {"netError", "nullBody", "noData", "noBeacons", "beaconsNotArray"}}
    \cup {OkResponse(bs) : bs \in SeqsUpTo(Beacons, MaxBeacons)}
NoResponse == [kind |-> "none", beacons |-> <<>>]

\* --------------------------------------------------------- pure functions
LowerCase == <<"a", "b", "c", "d", "e", "f">>
UpperCase == <<"A", "B", "C", "D", "E", "F">>

UpperChar(c) ==
    IF \E j \in 1..Len(LowerCase) : LowerCase[j] = c
    THEN UpperCase[CHOOSE j \in 1..Len(LowerCase) : LowerCase[j] = c]
    ELSE c

toUpperCase(s) == [j \in 1..Len(s) |-> UpperChar(s[j])]

\* formatUptime with the minutes taken from the whole uptime
formatUptimeTotalMinutes(uptimeInSeconds) ==
    LET days == uptimeInSeconds \div (60 * 60 * 24)
        hours == (uptimeInSeconds % (60 * 60 * 24)) \div (60 * 60)
        minutes == uptimeInSeconds \div 60
        seconds == uptimeInSeconds % 60
    IN ToString(days) \o " Tage, " \o ToString(hours) \o " Stunden, "
       \o ToString(minutes) \o " Minuten, " \o ToString(seconds) \o " Sekunden"

formatUptime(uptimeInSeconds) ==
    LET days == uptimeInSeconds \div (60 * 60 * 24)
        hours == (uptimeInSeconds % (60 * 60 * 24)) \div (60 * 60)
        minutes == (uptimeInSeconds % (60 * 60)) \div 60
        seconds == uptimeInSeconds % 60
    IN ToString(days) \o " Tage, " \o ToString(hours) \o " Stunden, "
       \o ToString(minutes) \o " Minuten, " \o ToString(seconds) \o " Sekunden"

\* the wall clock is outside the model: one fixed reading, in the code's format
getCurrentDateTime == "YYYY-MM-DD HH:MM:SS"

\* Object.keys(beacon)[0] of a single-key entry
ObjectKeys0(beacon) == CHOOSE k \in DOMAIN beacon : TRUE

\* extractBeaconData throws a TypeError when it reads a field of undefined
extractThrows(beacon) ==
    LET beaconData == beacon[ObjectKeys0(beacon)]
    IN \/ "nearestGatewayData" \notin DOMAIN beaconData
       \/ "location" \notin DOMAIN beaconData

\* extractBeaconData that keeps the key as the upstream spelled it
extractBeaconDataRawKey(beacon) ==
    LET beaconKey == ObjectKeys0(beacon)
        beaconData == beacon[beaconKey]
    IN [beacon |-> beaconKey,
        gateway |-> beaconData.nearestGatewayData.device,
        latitude |-> beaconData.location.latitude,
        longitude |-> beaconData.location.longitude,
        sapLocation |-> beaconData.location.sapLocation,
        tempCondition_Low |-> beaconData.location.tempCondition_Low,
        tempCondition_High |-> beaconData.location.tempCondition_High]

extractBeaconData(beacon) ==
    LET beaconKey == ObjectKeys0(beacon)
        beaconData == beacon[beaconKey]
        data == [beacon |-> toUpperCase(beaconKey),
                 gateway |-> beaconData.nearestGatewayData.device,
                 latitude |-> beaconData.location.latitude,
                 longitude |-> beaconData.location.longitude,
                 sapLocation |-> beaconData.location.sapLocation,
                 tempCondition_Low |-> beaconData.location.tempCondition_Low,
                 tempCondition_High |-> beaconData.location.tempCondition_High]
    IN IF "dynamb" \in DOMAIN beaconData
       THEN data @@ [temperature |-> beaconData.dynamb.temperature,
                     uptime |-> formatUptime(beaconData.dynamb.uptime)]
       ELSE data

\* originalBeacons.map(beacon => extractBeaconData(beacon))
mapExtract(originalBeacons) ==
    [k \in 1..Len(originalBeacons) |-> extractBeaconData(originalBeacons[k])]

\* item.temperature || 0
temperatureOrZero(item) ==
    IF "temperature" \in DOMAIN item /\ item.temperature # 0 THEN item.temperature ELSE 0

\* `beacon/${item.gatewayMac}`: a property the item lacks reads as undefined
deviceTopic(item) ==
    "beacon/" \o (IF "gatewayMac" \in DOMAIN item THEN item.gatewayMac ELSE "undefined")

mqttMessage(item) ==
    [topic |-> deviceTopic(item),
     message |-> [beacon |-> item.beacon,
                  gateway |-> item.gateway,
                  latitude |-> item.latitude,
                  longitude |-> item.longitude,
                  storageLocation |-> item.sapLocation,
                  tempCondition_Low |-> item.tempCondition_Low,
                  tempCondition_High |-> item.tempCondition_High,
                  currentDateTime |-> getCurrentDateTime,
                  temperature |-> temperatureOrZero(item)]]

dataToMongoDB(item) ==
    [beacon |-> item.beacon,
     gateway |-> item.gateway,
     latitude |-> item.latitude,
     longitude |-> item.longitude,
     tempConditionLow |-> item.tempCondition_Low,
     tempConditionHigh |-> item.tempCondition_High,
     sapLocation |-> item.sapLocation,
     events |-> <<[timestamp |-> getCurrentDateTime, temperature |-> temperatureOrZero(item)]>>]

\* ------------------------------------------- one call of fetchDataAndSend
\* pc: "idle" not called yet, "get" awaiting axios.get, "mqtt" awaiting the promise
\* of sendToMqtt, "mongo" awaiting an axios.post, "done" the call has settled.
\* outcome: how the call ended: "returned" (ran to its last statement), "noBeacons"
\* (the early return of the validation), "caught" (the catch block logged an error).
InitInv ==
    [pc |-> "idle", outcome |-> "none", getCalls |-> 0,
     responseData |-> NoResponse, extractedData |-> <<>>,
     connects |-> 0, mqttClient |-> "none", mqttPromise |-> "none", published |-> <<>>,
     posts |-> <<>>, postsDone |-> 0, subscribed |-> FALSE]

\* the call itself: axios.get is issued and awaited
startCall(st) == [st EXCEPT !.pc = "get", !.getCalls = @ + 1]

\* catch (error) { console.error(...) }
catchError(st) == [st EXCEPT !.pc = "done", !.outcome = "caught"]

\* the validation without its Array.isArray test
malformedDataOnly(responseData) == responseData.kind = "noData"

\* !responseData.data || !Array.isArray(responseData.data.beacons)
malformed(responseData) ==
    \/ responseData.kind = "noData"
    \/ responseData.kind \in {"noBeacons", "beaconsNotArray"}

\* io.on('connection', ...) and the end of the try block
subscribe(st) == [st EXCEPT !.subscribed = TRUE, !.pc = "done", !.outcome = "returned"]

\* the loop without its await: every remaining post is issued at once
postAllAtOnce(st) ==
    [st EXCEPT !.posts = @ \o [k \in 1..(Len(st.extractedData) - Len(st.posts)) |->
                                  dataToMongoDB(st.extractedData[Len(st.posts) + k])],
               !.pc = "mongo"]

\* the body of the for loop up to its await: build the payload, issue axios.post
postNext(st) ==
    [st EXCEPT !.posts = Append(@, dataToMongoDB(st.extractedData[Len(st.posts) + 1])),
               !.pc = "mongo"]

\* sendToMongoDB from the loop test on: i < extractedData.length, where i is the
\* number of posts issued (all of them answered); past the loop the caller goes on
\* to the subscriber step
sendToMongoDB(st) ==
    IF Len(st.posts) < Len(st.extractedData) THEN postNext(st) ELSE subscribe(st)

\* sendToMqtt up to the promise it returns: mqtt.connect and the three listeners
sendToMqtt(st) ==
    [st EXCEPT !.mqttClient = "open", !.connects = @ + 1,
               !.mqttPromise = "pending", !.pc = "mqtt"]

\* the 'connect' listener: one publish per item, then mqttClient.end()
onConnect(st) ==
    [st EXCEPT !.published = @ \o [k \in 1..Len(st.extractedData) |->
                                      mqttMessage(st.extractedData[k])],
               !.mqttClient = "ending"]

\* an 'error' listener that settles the promise without failing the call
onErrorSwallowed(st) ==
    IF st.mqttPromise = "pending"
    THEN sendToMongoDB([st EXCEPT !.mqttPromise = "rejected"])
    ELSE st

\* the 'error' listener is reject: a settled promise ignores it, a pending one
\* rejects and the await in fetchDataAndSend throws into the catch block
onError(st) ==
    IF st.mqttPromise = "pending"
    THEN catchError([st EXCEPT !.mqttPromise = "rejected"])
    ELSE st

\* the 'close' listener is resolve: a settled promise ignores it, a pending one
\* resolves and fetchDataAndSend goes on to sendToMongoDB. A client that was
\* ended is closed for good; one that was not stays alive and reconnects.
onClose(st) ==
    LET s1 == [st EXCEPT !.mqttClient = IF @ = "ending" THEN "closed" ELSE @]
    IN IF st.mqttPromise = "pending"
       THEN sendToMongoDB([s1 EXCEPT !.mqttPromise = "resolved"])
       ELSE s1

\* fetchDataAndSend from the answer of axios.get to its next await
fetchDataAndSend(st, r) ==
    IF r.kind = "netError" THEN catchError(st)
    ELSE LET s1 == [st EXCEPT !.responseData = r]
         IN IF r.kind = "nullBody" THEN catchError(s1)
            ELSE IF malformed(r) THEN [s1 EXCEPT !.pc = "done", !.outcome = "noBeacons"]
            \* .map of anything but an array, or extractBeaconData on a broken
            \* entry, throws a TypeError
            ELSE IF r.kind # "ok" \/ \E k \in 1..Len(r.beacons) : extractThrows(r.beacons[k])
                 THEN catchError(s1)
            ELSE sendToMqtt([s1 EXCEPT !.extractedData = mapExtract(r.beacons)])

\* ------------------------------------------------------------------ actions
\* the listener io.on registers closes over the call's extractedData
Step(i, st) ==
    /\ inv' = [inv EXCEPT ![i] = st]
    /\ listeners' = IF st.subscribed /\ ~inv[i].subscribed
                    THEN Append(listeners, [inv |-> i, batch |-> st.extractedData])
                    ELSE listeners
    /\ UNCHANGED <<connected, received>>

\* the external trigger calls fetchDataAndSend(io); calls may overlap
Start(i) ==
    /\ inv[i].pc = "idle"
    /\ IF i = 1 THEN TRUE ELSE inv[i - 1].pc # "idle"
    /\ Step(i, startCall(inv[i]))

GetResponds(i, r) ==
    /\ inv[i].pc = "get"
    /\ Step(i, fetchDataAndSend(inv[i], r))

\* the MQTT client emits 'connect' (at most once: its listener ends the client)
MqttConnect(i) ==
    /\ inv[i].mqttClient = "open"
    /\ Step(i, onConnect(inv[i]))

MqttError(i) ==
    /\ inv[i].mqttClient \in {"open", "ending"}
    /\ Step(i, onError(inv[i]))

MqttClose(i) ==
    /\ inv[i].mqttClient \in {"open", "ending"}
    /\ Step(i, onClose(inv[i]))

\* the persistence API answers the post in flight
PostOk(i) ==
    /\ inv[i].pc = "mongo"
    /\ Step(i, sendToMongoDB([inv[i] EXCEPT !.postsDone = @ + 1]))

\* the post in flight fails: the await throws out of the loop into the catch block
PostFail(i) ==
    /\ inv[i].pc = "mongo"
    /\ Step(i, catchError([inv[i] EXCEPT !.postsDone = @ + 1]))

\* a socket connects: io emits 'connection', every registered listener runs in
\* registration order and each io.emit reaches every connected socket
SocketConnect(s) ==
    /\ s \notin connected
    /\ connected' = connected \cup {s}
    /\ received' = [t \in Sockets |->
            IF t \in connected'
            THEN received[t] \o [k \in 1..Len(listeners) |->
                    [event |-> "beaconData", inv |-> listeners[k].inv,
                     data |-> listeners[k].batch]]
            ELSE received[t]]
    /\ UNCHANGED <<inv, listeners>>

Init ==
    /\ inv = [i \in Invs |-> InitInv]
    /\ listeners = <<>>
    /\ connected = {}
    /\ received = [s \in Sockets |-> <<>>]

Next ==
    \/ \E i \in Invs : Start(i)
    \/ \E i \in Invs, r \in Responses : GetResponds(i, r)
    \/ \E i \in Invs : MqttConnect(i)
    \/ \E i \in Invs : MqttError(i)
    \/ \E i \in Invs : MqttClose(i)
    \/ \E i \in Invs : PostOk(i)
    \/ \E i \in Invs : PostFail(i)
    \/ \E s \in Sockets : SocketConnect(s)

Spec == Init /\ [][Next]_vars

\* formatUptime alone: one call whose response holds one beacon with an uptime
InitUptime ==
    /\ inv = [i \in Invs |-> IF i = 1 THEN startCall(InitInv) ELSE InitInv]
    /\ listeners = <<>>
    /\ connected = {}
    /\ received = [s \in Sockets |-> <<>>]

NextUptime ==
    /\ inv[1].pc = "get"
    /\ \E s \in 0..MaxUptime : GetResponds(1, OkResponse(<<BeaconDynamb(s)>>))

SpecUptime == InitUptime /\ [][NextUptime]_vars

\* ------------------------------------------------------------------ claims
\* the entries of a response that extractBeaconData accepts
WellFormed(r) ==
    r.kind = "ok" /\ \A k \in 1..Len(r.beacons) : ~extractThrows(r.beacons[k])

\* the key of a single-key entry
KeyOf(entry) == CHOOSE k \in DOMAIN entry : DOMAIN entry = {k}

\* C1: a well-formed response with zero beacon entries opens no MQTT connection
\* and issues no persistence append.
C1_EmptyBatchSkipsFanOut ==
    \A i \in Invs :
        inv[i].responseData.kind = "ok" /\ inv[i].responseData.beacons = <<>>
        => inv[i].connects = 0 /\ inv[i].posts = <<>>

BatchEvent(i, batch) == [event |-> "beaconData", inv |-> i, data |-> batch]

\* C2: the step that performs a call's subscriber step sends that call's batch
\* once to every socket connected at that moment, and a socket that connects
\* later is sent no batch of a call whose subscriber step is already over.
C2_BroadcastOnceNoReplay ==
    [][/\ \A i \in Invs :
            ~inv[i].subscribed /\ inv'[i].subscribed
            => \A s \in connected :
                   received'[s] = Append(received[s], BatchEvent(i, inv'[i].extractedData))
       /\ \A s \in Sockets :
            s \notin connected /\ s \in connected'
            => \A k \in 1..Len(received'[s]) : ~inv[received'[s][k].inv].subscribed]_vars

\* C3: every published message goes to 'beacon/' followed by the gateway that
\* extractBeaconData stored in the record the message was built from.
C3_TopicIsExtractedGateway ==
    \A i \in Invs : \A k \in 1..Len(inv[i].published) :
        inv[i].published[k].topic = "beacon/" \o inv[i].extractedData[k].gateway

\* C4: once the promise of sendToMqtt has resolved, one publish per record has
\* been issued.
C4_ResolvedAfterAllPublished ==
    \A i \in Invs :
        inv[i].mqttPromise = "resolved"
        => Len(inv[i].published) = Len(inv[i].extractedData)

\* C5: the first append is issued only after the MQTT step is over (connected,
\* every record published, client closed), the subscriber step starts only after
\* the last append was answered, and the MQTT client is never active while the
\* persistence loop is awaiting an answer.
C5_StepsStrictlySequential ==
    \A i \in Invs :
        /\ inv[i].posts # <<>>
           => /\ inv[i].mqttClient = "closed"
              /\ Len(inv[i].published) = Len(inv[i].extractedData)
        /\ inv[i].subscribed
           => /\ Len(inv[i].posts) = Len(inv[i].extractedData)
              /\ inv[i].postsDone = Len(inv[i].extractedData)
        /\ inv[i].pc = "mongo" => inv[i].mqttClient \notin {"open", "ending"}

\* C6: a call whose MQTT promise rejected has issued no append, registered no
\* subscriber listener and sent no socket anything, has called axios.get and
\* mqtt.connect once each, and has ended in its catch block.
C6_MqttFailureAbandonsCall ==
    \A i \in Invs :
        inv[i].mqttPromise = "rejected"
        => /\ inv[i].posts = <<>> /\ inv[i].postsDone = 0
           /\ ~inv[i].subscribed
           /\ \A k \in 1..Len(listeners) : listeners[k].inv # i
           /\ \A s \in Sockets : \A k \in 1..Len(received[s]) : received[s][k].inv # i
           /\ inv[i].getCalls = 1 /\ inv[i].connects = 1
           /\ inv[i].pc = "done" /\ inv[i].outcome = "caught"

C6_Witness ==
    \E i \in Invs :
        /\ inv[i].mqttPromise = "rejected"
        /\ Len(inv[i].extractedData) = MaxBeacons
        /\ inv[i].pc = "done"

MalformedKinds == {"noData", "noBeacons", "beaconsNotArray"}

\* C7: a call whose response lacks the data object or the beacons collection, or
\* whose beacons is no array, has produced no record, opened no MQTT connection,
\* issued no append, registered no subscriber listener, called axios.get once,
\* and has ended by the early return, without any exception raised.
C7_MalformedResponseIsDropped ==
    \A i \in Invs :
        inv[i].responseData.kind \in MalformedKinds
        => /\ inv[i].extractedData = <<>>
           /\ inv[i].connects = 0 /\ inv[i].mqttClient = "none" /\ inv[i].published = <<>>
           /\ inv[i].posts = <<>>
           /\ ~inv[i].subscribed
           /\ \A k \in 1..Len(listeners) : listeners[k].inv # i
           /\ inv[i].getCalls = 1
           /\ inv[i].pc = "done" /\ inv[i].outcome = "noBeacons"

C7_Witness ==
    \E i \in Invs : inv[i].responseData.kind = "beaconsNotArray" /\ inv[i].pc = "done"

\* u is k with every lower-case letter replaced by its capital
IsUppercased(u, k) ==
    /\ Len(u) = Len(k)
    /\ \A j \in 1..Len(k) :
        /\ \A n \in 1..Len(LowerCase) : u[j] # LowerCase[n]
        /\ \/ u[j] = k[j]
           \/ \E n \in 1..Len(LowerCase) : k[j] = LowerCase[n] /\ u[j] = UpperCase[n]

\* C8: for a well-formed response with N entries the call holds N records, in
\* the order of the entries, the k-th with the uppercased key of the k-th entry.
C8_OneRecordPerEntry ==
    \A i \in Invs :
        WellFormed(inv[i].responseData)
        => /\ Len(inv[i].extractedData) = Len(inv[i].responseData.beacons)
           /\ \A k \in 1..Len(inv[i].responseData.beacons) :
                IsUppercased(inv[i].extractedData[k].beacon,
                             KeyOf(inv[i].responseData.beacons[k]))

C8_Witness ==
    \E i \in Invs :
        /\ WellFormed(inv[i].responseData)
        /\ Len(inv[i].extractedData) = MaxBeacons
        /\ inv[i].responseData.beacons[1] # inv[i].responseData.beacons[2]
        /\ inv[i].extractedData[1].beacon # KeyOf(inv[i].responseData.beacons[1])

\* whole units by repeated subtraction: how often unit fits into s
RECURSIVE Fits(_, _)
Fits(s, unit) == IF s < unit THEN 0 ELSE 1 + Fits(s - unit, unit)

Tage(s) == Fits(s, 86400)
Stunden(s) == Fits(s - Tage(s) * 86400, 3600)
Minuten(s) == Fits(s - Tage(s) * 86400 - Stunden(s) * 3600, 60)
Sekunden(s) == s - Tage(s) * 86400 - Stunden(s) * 3600 - Minuten(s) * 60

\* C9: the uptime string of a record is 'D Tage, H Stunden, M Minuten, S Sekunden'
\* for the one decomposition s = D*86400 + H*3600 + M*60 + S with H < 24, M < 60
\* and S < 60 of the entry's uptime s, and 90061 gives 1, 1, 1 and 1.
C9_UptimeDecomposition ==
    \A i \in Invs : \A k \in 1..Len(inv[i].extractedData) :
        "uptime" \in DOMAIN inv[i].extractedData[k]
        => LET entry == inv[i].responseData.beacons[k]
               s == entry[KeyOf(entry)].dynamb.uptime
               text == inv[i].extractedData[k].uptime
           IN /\ Stunden(s) < 24 /\ Minuten(s) < 60 /\ Sekunden(s) \in 0..59
              /\ text = ToString(Tage(s)) \o " Tage, " \o ToString(Stunden(s))
                        \o " Stunden, " \o ToString(Minuten(s)) \o " Minuten, "
                        \o ToString(Sekunden(s)) \o " Sekunden"
              /\ s = 90061 => text = "1 Tage, 1 Stunden, 1 Minuten, 1 Sekunden"

C9_Witness ==
    \E i \in Invs :
        /\ Len(inv[i].extractedData) = 1
        /\ "uptime" \in DOMAIN inv[i].extractedData[1]
        /\ inv[i].extractedData[1].uptime = "1 Tage, 1 Stunden, 1 Minuten, 1 Sekunden"

\* C10 as stated: a call that is over and whose MQTT promise resolved has issued
\* one append per record.
C10_OneAppendPerRecord ==
    \A i \in Invs :
        inv[i].pc = "done" /\ inv[i].mqttPromise = "resolved"
        => Len(inv[i].posts) = Len(inv[i].extractedData)

\* C10 amended: the appends issued are those of the first records, one each and
\* in record order, issued only after the MQTT promise resolved; at most one is
\* unanswered, and that only while the loop awaits it; a call that ran to its end
\* has issued, and had answered, one append per record.
C10_AppendsSequentialPrefix ==
    \A i \in Invs :
        /\ Len(inv[i].posts) <= Len(inv[i].extractedData)
        /\ \A k \in 1..Len(inv[i].posts) :
            /\ inv[i].posts[k].beacon = inv[i].extractedData[k].beacon
            /\ inv[i].posts[k].gateway = inv[i].extractedData[k].gateway
        /\ inv[i].posts # <<>> => inv[i].mqttPromise = "resolved"
        /\ Len(inv[i].posts) - inv[i].postsDone = (IF inv[i].pc = "mongo" THEN 1 ELSE 0)
        /\ inv[i].outcome = "returned"
           => /\ Len(inv[i].posts) = Len(inv[i].extractedData)
              /\ inv[i].postsDone = Len(inv[i].extractedData)

C10_Witness ==
    \E i \in Invs :
        /\ inv[i].outcome = "returned"
        /\ Len(inv[i].posts) = MaxBeacons
        /\ inv[i].posts[1].beacon # inv[i].posts[2].beacon
====
